---- MODULE Spec2Model ----
(***************************************************************************)
(* kornia/feature/steerers.py: DiscreteSteerer.                            *)
(*                                                                         *)
(* A steerer owns one matrix (the generator) and maps batches of           *)
(* descriptor vectors through it with torch.nn.functional.linear,          *)
(* optionally several times and optionally followed by an L2               *)
(* normalisation.  from_pretrained builds two fixed generators.            *)
(*                                                                         *)
(* Numbers: a float is modelled in fixed point, the integer n standing     *)
(* for n / Scale.  Integer-valued tensors (all of C4, the permutation      *)
(* examples) are exact in this arithmetic as they are in float32; the      *)
(* rotation entries of the SO2 generator and normalised rows are rounded   *)
(* to 1 / Scale.                                                           *)
(*                                                                         *)
(* Tensors: a 2-D tensor is [nrows, ncols, rows], rows a sequence of       *)
(* sparse rows (a function from the columns that hold a nonzero entry to   *)
(* that entry), so that equal matrices are equal values.                   *)
(*                                                                         *)
(* Objects: Python names are references.  heap maps the identity of each   *)
(* live tensor to its value; an operation that returns a new tensor        *)
(* allocates, an in-place operation would overwrite.                       *)
(***************************************************************************)
EXTENDS Integers, Sequences, FiniteSets, TLC

(***************************************************************************)
(* Fixed-point arithmetic                                                  *)
(***************************************************************************)
Scale == 10000

Fx(n) == n * Scale

Abs(a) == IF a < 0 THEN 0 - a ELSE a

\* a * b / Scale rounded to nearest, computed in halves so that no
\* intermediate product leaves 32 bits.
Mul(a, b) ==
    LET qa == a \div Scale   ra == a % Scale
        qb == b \div Scale   rb == b % Scale
    IN  qa * qb * Scale + qa * rb + ra * qb + ((ra * rb + Scale \div 2) \div Scale)

\* a / b rounded to nearest, b > 0.
Div(a, b) ==
    LET q == a \div b   r == a % b
    IN  q * Scale + ((r * Scale + b \div 2) \div b)

\* a * b / Scale rounded up.
MulUp(a, b) ==
    LET qa == a \div Scale   ra == a % Scale
        qb == b \div Scale   rb == b % Scale
    IN  qa * qb * Scale + qa * rb + ra * qb + ((ra * rb + Scale - 1) \div Scale)

\* floor of the square root of the fixed-point number a >= 0: the largest
\* r with r * r <= a, by bisection on lo <= r < hi.
RECURSIVE SqrtBisect(_, _, _)
SqrtBisect(a, lo, hi) ==
    IF hi - lo <= 1 THEN lo
    ELSE LET mid == (lo + hi) \div 2
         IN  IF MulUp(mid, mid) <= a THEN SqrtBisect(a, mid, hi)
                                     ELSE SqrtBisect(a, lo, mid)

Sqrt(a) == SqrtBisect(a, 0, a + Scale + 1)

\* The circle constant to the resolution of the arithmetic, used only for
\* the range reduction of Sin and Cos.
Pi == (314159265 + (100000000 \div Scale) \div 2) \div (100000000 \div Scale)

\* n-th Taylor term onward of sin or cos: term is the k-th term, t2 the
\* square of the argument; the next term is -term * t2 / ((k+1)(k+2)).
RECURSIVE Series(_, _, _)
Series(term, t2, k) ==
    IF term = 0 THEN 0
    ELSE LET d == (k + 1) * (k + 2)
             next == 0 - ((Mul(term, t2) + d \div 2) \div d)
         IN  term + Series(next, t2, k + 2)

SinSmall(t) == Series(t, Mul(t, t), 1)
CosSmall(t) == Series(Scale, Mul(t, t), 0)

\* cos and sin of the fixed-point angle a (radians), reduced to [0, pi/2].
Cos(a) ==
    LET r == a % (2 * Pi)
    IN  IF r <= Pi \div 2 THEN CosSmall(r)
        ELSE IF r <= Pi THEN 0 - CosSmall(Pi - r)
        ELSE IF r <= Pi + Pi \div 2 THEN 0 - CosSmall(r - Pi)
        ELSE CosSmall(2 * Pi - r)

Sin(a) ==
    LET r == a % (2 * Pi)
    IN  IF r <= Pi \div 2 THEN SinSmall(r)
        ELSE IF r <= Pi THEN SinSmall(Pi - r)
        ELSE IF r <= Pi + Pi \div 2 THEN 0 - SinSmall(r - Pi)
        ELSE 0 - SinSmall(2 * Pi - r)

(***************************************************************************)
(* Tensors                                                                 *)
(***************************************************************************)
\* The nonzero entries of a dense row.
SparseRow(dense) ==
    [j \in {c \in DOMAIN dense : dense[c] # 0} |-> dense[j]]

\* torch.tensor(m) for a list of equally long lists of numbers.
TorchTensor(m) ==
    [nrows |-> Len(m),
     ncols |-> IF Len(m) = 0 THEN 0 ELSE Len(m[1]),
     rows  |-> [i \in 1..Len(m) |->
                  SparseRow([j \in 1..Len(m[i]) |-> Fx(m[i][j])])]]

\* torch.zeros([r, c]).
TorchZeros(r, c) ==
    [nrows |-> r, ncols |-> c, rows |-> [i \in 1..r |-> SparseRow(<<>>)]]

Entry(t, i, j) == IF j \in DOMAIN t.rows[i] THEN t.rows[i][j] ELSE 0

IsSquare(t) == t.nrows = t.ncols

RECURSIVE SumOver(_, _)
SumOver(S, f) ==
    IF S = {} THEN 0
    ELSE LET j == CHOOSE c \in S : TRUE
         IN  f[j] + SumOver(S \ {j}, f)

\* The inner product of two sparse rows.
Dot(r1, r2) ==
    LET common == DOMAIN r1 \cap DOMAIN r2
    IN  SumOver(common, [j \in common |-> Mul(r1[j], r2[j])])

\* The sum of the first k numbers of a sequence.
RECURSIVE SumFirst(_, _)
SumFirst(sizes, k) == IF k = 0 THEN 0 ELSE sizes[k] + SumFirst(sizes, k - 1)

\* torch.block_diag(*blocks): block k sits below and to the right of the
\* blocks before it, everything else is zero.
BlockDiag(blocks) ==
    LET n      == Len(blocks)
        rowOff == [k \in 0..n |-> SumFirst([b \in 1..n |-> blocks[b].nrows], k)]
        colOff == [k \in 0..n |-> SumFirst([b \in 1..n |-> blocks[b].ncols], k)]
    IN  [nrows |-> rowOff[n],
         ncols |-> colOff[n],
         rows  |-> [i \in 1..rowOff[n] |->
                      LET k == CHOOSE b \in 1..n : rowOff[b - 1] < i /\ i <= rowOff[b]
                          r == blocks[k].rows[i - rowOff[k - 1]]
                          c0 == colOff[k - 1]
                      IN  [j \in {c + c0 : c \in DOMAIN r} |-> r[j - c0]]]]

\* scalar * tensor.
ScalarMul(s, t) ==
    [t EXCEPT !.rows = [i \in 1..t.nrows |->
                          LET r == t.rows[i]
                          IN  SparseRow([j \in DOMAIN r |-> Mul(s, r[j])])]]

\* torch.matrix_exp of a matrix that is a direct sum of zero blocks and of
\* 2x2 blocks [[0, a], [-a, 0]]: the exponential of a zero row is the
\* identity row, the exponential of [[0, a], [-a, 0]] is the rotation
\* [[cos a, sin a], [-sin a, cos a]].  Row i of such a matrix holds at most
\* one entry v, in the column j next to i, and row i of the exponential is
\* cos v in column i and sin v in column j.
MatrixExp(t) ==
    [t EXCEPT !.rows = [i \in 1..t.nrows |->
        LET r == t.rows[i]
        IN  IF DOMAIN r = {}
            THEN [j \in {i} |-> Scale]
            ELSE LET j == CHOOSE c \in DOMAIN r : TRUE
                 IN  SparseRow([c \in {i, j} |->
                                  IF c = i THEN Cos(r[j]) ELSE Sin(r[j])])]]

\* Faulty variant: the width of x is compared with the number of rows of weight.
LinearShapesOkRows(x, weight) == x.ncols = weight.nrows

\* Faulty variant: x times weight, not transposed.
LinearUntransposed(x, weight) ==
    [nrows |-> x.nrows,
     ncols |-> weight.ncols,
     rows  |-> [m \in 1..x.nrows |->
                  LET xr == x.rows[m]
                      js == DOMAIN xr \cap (1..weight.nrows)
                  IN  SparseRow([i \in 1..weight.ncols |->
                        SumOver(js, [j \in js |-> Mul(xr[j], Entry(weight, j, i))])])]]

\* torch.nn.functional.linear(x, weight) without bias: x (M x in) times the
\* transpose of weight (out x in); defined when the widths agree.
LinearShapesOk(x, weight) == x.ncols = weight.ncols

Linear(x, weight) ==
    [nrows |-> x.nrows,
     ncols |-> weight.nrows,
     rows  |-> [m \in 1..x.nrows |->
                  LET xr == x.rows[m]
                  IN  SparseRow([i \in 1..weight.nrows |-> Dot(xr, weight.rows[i])])]]

\* The floor of torch.nn.functional.normalize (eps = 1e-12), which the
\* arithmetic cannot tell from its smallest positive number.
Eps == 1

Max(a, b) == IF a >= b THEN a ELSE b

\* The Euclidean norm of a sparse row.
Norm(r) == Sqrt(Dot(r, r))

\* torch.nn.functional.normalize(x, dim=-1): each row divided by
\* max(its Euclidean norm, eps).
Normalize(x) ==
    [x EXCEPT !.rows = [m \in 1..x.nrows |->
        LET r == x.rows[m]
            denom == Max(Norm(r), Eps)
        IN  SparseRow([j \in DOMAIN r |-> Div(r[j], denom)])]]

(***************************************************************************)
(* Objects                                                                 *)
(***************************************************************************)
NoRef == 0

NoSteerer == [generator |-> NoRef, training |-> FALSE]

\* A new tensor object holding value v: the heap with it, and its identity
\* (the least one not in use).
NewTensor(h, v) ==
    LET id == CHOOSE i \in 1..(Cardinality(DOMAIN h) + 1) :
                  /\ i \notin DOMAIN h
                  /\ \A k \in 1..(i - 1) : k \in DOMAIN h
    IN  [heap |-> (id :> v) @@ h, ref |-> id, err |-> "none"]

\* The heap without the objects no reference in `live` reaches.
Collect(h, live) == [id \in DOMAIN h \cap live |-> h[id]]

\* Identities carry no meaning beyond equality: between calls the model
\* names the steerer's generator 1, the caller's batch 2 and the last
\* result 3 (2 when the result is the batch itself).
GeneratorId == 1
BatchId == 2
ResultId == 3

Rename(g, d, o, ref) ==
    IF ref = NoRef THEN NoRef
    ELSE IF ref = d THEN BatchId
    ELSE IF ref = g THEN GeneratorId
    ELSE IF ref = o THEN ResultId
    ELSE NoRef

\* The live part of heap h under the identities of Rename.
Settle(h, g, d, o) ==
    LET live == ({g, d, o} \ {NoRef}) \cap DOMAIN h
    IN  [id \in {Rename(g, d, o, r) : r \in live} |->
            h[CHOOSE r \in live : Rename(g, d, o, r) = id]]

(***************************************************************************)
(* DiscreteSteerer                                                         *)
(***************************************************************************)
\* __init__: the generator is stored as the module's parameter; a Parameter
\* shares the tensor it is given.  A new module is in training mode.
DiscreteSteerer(generator) == [generator |-> generator, training |-> TRUE]

\* Module.eval().
Eval(self) == [self EXCEPT !.training = FALSE]

\* forward: linear returns a new tensor, or raises on a shape mismatch.
forward(h, self, x) ==
    IF LinearShapesOk(h[x], h[self.generator])
    THEN NewTensor(h, Linear(h[x], h[self.generator]))
    ELSE [heap |-> h, ref |-> NoRef, err |-> "RuntimeError"]

\* Faulty variant: the loop runs once more than steerer_power.
RECURSIVE SteerLoopOnceMore(_, _, _, _, _, _)
SteerLoopOnceMore(h, self, descriptions, i, steerer_power, held) ==
    IF i > steerer_power
    THEN [heap |-> h, ref |-> descriptions, err |-> "none"]
    ELSE LET r == IF LinearShapesOk(h[descriptions], h[self.generator])
                  THEN NewTensor(h, Linear(h[descriptions], h[self.generator]))
                  ELSE [heap |-> h, ref |-> NoRef, err |-> "RuntimeError"]
         IN  IF r.err # "none" THEN r
             ELSE SteerLoopOnceMore(Collect(r.heap, held \cup {r.ref}), self, r.ref,
                                    i + 1, steerer_power, held)

\* The loop of steer_descriptions from iteration i on.  `descriptions` is
\* rebound to each result; a result no other name holds dies with the
\* rebinding (`held` are the references the caller and the module hold).
RECURSIVE SteerLoop(_, _, _, _, _, _)
SteerLoop(h, self, descriptions, i, steerer_power, held) ==
    IF i >= steerer_power
    THEN [heap |-> h, ref |-> descriptions, err |-> "none"]
    ELSE LET r == forward(h, self, descriptions)
         IN  IF r.err # "none" THEN r
             ELSE SteerLoop(Collect(r.heap, held \cup {r.ref}), self, r.ref,
                            i + 1, steerer_power, held)

\* Faulty variant: normalize writes into its argument.
NormalizeInPlace(h, descriptions) ==
    [heap |-> [h EXCEPT ![descriptions] = Normalize(h[descriptions])],
     ref |-> descriptions, err |-> "none"]

\* normalize returns a new tensor.
NormalizeCall(h, descriptions) == NewTensor(h, Normalize(h[descriptions]))

\* Faulty variant: the batch is normalised before the loop, not after it.
SteerNormalizeFirst(h, self, descriptions, steerer_power, normalize, held) ==
    IF ~normalize
    THEN SteerLoop(h, self, descriptions, 0, steerer_power, held)
    ELSE LET n == NormalizeCall(h, descriptions)
             r == SteerLoop(n.heap, self, n.ref, 0, steerer_power, held \cup {n.ref})
         IN  [r EXCEPT !.heap = Collect(r.heap, held \cup {r.ref})]

steer_descriptions(h, self, descriptions, steerer_power, normalize, held) ==
    LET looped == SteerLoop(h, self, descriptions, 0, steerer_power, held)
    IN  IF looped.err # "none" \/ ~normalize THEN looped
        ELSE LET r == NormalizeCall(looped.heap, looped.ref)
             IN  [r EXCEPT !.heap = Collect(r.heap, held \cup {r.ref})]

descriptor_dim == 256

\* Faulty variant: the cyclic block written in the other direction.
C4BlockReversed == TorchTensor(<< <<0, 0, 0, 1>>,
                                  <<1, 0, 0, 0>>,
                                  <<0, 1, 0, 0>>,
                                  <<0, 0, 1, 0>> >>)

\* The 4x4 block of the C4 generator.
C4Block == TorchTensor(<< <<0, 1, 0, 0>>,
                          <<0, 0, 1, 0>>,
                          <<0, 0, 0, 1>>,
                          <<1, 0, 0, 0>> >>)

C4Generator == BlockDiag([b \in 1..(descriptor_dim \div 4) |-> C4Block])

\* The side of the leading zero block: Python reads
\* descriptor_dim - 12 * descriptor_dim // 14 as
\* descriptor_dim - ((12 * descriptor_dim) // 14).
SO2ZeroSide == descriptor_dim - ((12 * descriptor_dim) \div 14)

\* for j in range(1, 7) for _ in range(descriptor_dim // 14): the j of the
\* b-th 2x2 block.
SO2Frequency(b) == ((b - 1) \div (descriptor_dim \div 14)) + 1

SO2LieGenerator ==
    BlockDiag(<<TorchZeros(SO2ZeroSide, SO2ZeroSide)>> \o
              [b \in 1..(6 * (descriptor_dim \div 14)) |->
                  TorchTensor(<< <<0, SO2Frequency(b)>>,
                                 <<0 - SO2Frequency(b), 0>> >>)])

\* The literal 3.14159 of the source, as a fixed-point number.
Pi314159 == (314159 + (100000 \div Scale) \div 2) \div (100000 \div Scale)

SO2Generator(steerer_order) ==
    MatrixExp(ScalarMul(Div(2 * Pi314159, Fx(steerer_order)), SO2LieGenerator))

\* Faulty variant: an unknown generator_type falls back to the default "C4".
PretrainedGeneratorFallback(generator_type, steerer_order) ==
    IF generator_type = "SO2"
    THEN IF steerer_order = 0
         THEN [err |-> "ZeroDivisionError", generator |-> TorchZeros(0, 0)]
         ELSE [err |-> "none", generator |-> SO2Generator(steerer_order)]
    ELSE [err |-> "none", generator |-> C4Generator]

\* The generator from_pretrained builds, or the exception it raises before
\* any tensor of the result exists: ValueError for an unknown type, and
\* ZeroDivisionError from 2 * 3.14159 / 0.
PretrainedGenerator(generator_type, steerer_order) ==
    IF generator_type = "C4"
    THEN [err |-> "none", generator |-> C4Generator]
    ELSE IF generator_type = "SO2"
    THEN IF steerer_order = 0
         THEN [err |-> "ZeroDivisionError", generator |-> TorchZeros(0, 0)]
         ELSE [err |-> "none", generator |-> SO2Generator(steerer_order)]
    ELSE [err |-> "ValueError", generator |-> TorchZeros(0, 0)]

(***************************************************************************)
(* Bounds and inputs                                                       *)
(***************************************************************************)
\* steerer_power ranges over 0..MaxPower and the default order 8.
MaxPower == 4
\* steerer_order ranges over 0..MaxOrder and the default 8.
MaxOrder == 2

DefaultOrder == 8

Powers == (0..MaxPower) \cup {DefaultOrder}
Orders == (0..MaxOrder) \cup {DefaultOrder}
GeneratorTypes == {"C4", "SO2", "invalid", "c4"}

\* Generators the caller constructs a steerer from: square ones (the 4x4
\* cyclic block, identity, zero, a projection, a shear, a quarter turn) and
\* two that are not square.
GeneratorLists ==
    { << <<0, 1, 0, 0>>, <<0, 0, 1, 0>>, <<0, 0, 0, 1>>, <<1, 0, 0, 0>> >>,
      << <<1, 0>>, <<0, 1>> >>,
      << <<0, 0>>, <<0, 0>> >>,
      << <<1, 0>>, <<0, 0>> >>,
      << <<1, 1>>, <<0, 1>> >>,
      << <<0, 1>>, <<-1, 0>> >>,
      << <<1, 0, 0>>, <<0, 1, 1>> >>,
      << <<1, 0>>, <<0, 1>>, <<1, -1>> >> }

Generators == {TorchTensor(m) : m \in GeneratorLists}

\* The caller's small batches, of widths 2, 3 and 4 and of one or two rows.
BatchLists ==
    { << <<0, 0>> >>,
      << <<1, 0>> >>,
      << <<1, 2>> >>,
      << <<-1, 1>>, <<0, 0>> >>,
      << <<0, 1>>, <<2, 1>> >>,
      << <<0, 0, 0>> >>,
      << <<1, 0, 2>> >>,
      << <<0, 1, -1>>, <<1, 1, 0>> >>,
      << <<1, 0, 0, 0>> >>,
      << <<0, 0, 1, 0>>, <<1, 2, 3, 4>> >> }

SmallBatches == {TorchTensor(m) : m \in BatchLists}

\* Descriptor batches of the pretrained width, and of the width of the SO2
\* generator as built: one row with entry v at column p and 1 at column q
\* (v alone when p = q).
WideRow(width, p, q, v) ==
    [nrows |-> 1, ncols |-> width,
     rows |-> <<SparseRow([c \in {p, q} |-> IF c = p THEN Fx(v) ELSE Fx(1)])>>]

WideBatches ==
    {WideRow(descriptor_dim, p, p, 1) : p \in {1, 37, 256}}
      \cup {WideRow(descriptor_dim, p, p + 1, 2) : p \in {4, 255}}
      \cup {WideRow(SO2LieGenerator.ncols, p, p + 1, 2) : p \in {38, 252}}

Batches == SmallBatches \cup WideBatches

\* from_pretrained's generator for every input of the model.
Pretrained ==
    [t \in GeneratorTypes, n \in Orders |-> PretrainedGenerator(t, n)]

\* from_pretrained: the generator tensor and the module in inference mode,
\* or the exception and nothing.
from_pretrained(h, generator_type, steerer_order) ==
    LET g == Pretrained[generator_type, steerer_order]
    IN  IF g.err # "none"
        THEN [heap |-> h, module |-> NoSteerer, err |-> g.err]
        ELSE LET t == NewTensor(h, g.generator)
             IN  [heap |-> t.heap, module |-> Eval(DiscreteSteerer(t.ref)),
                  err |-> "none"]

(***************************************************************************)
(* State                                                                   *)
(***************************************************************************)
VARIABLES
    heap,          \* identity -> value of every live tensor
    steerer,       \* the caller's steerer, NoSteerer before the first
    descriptions,  \* the caller's batch (a reference), NoRef before the first
    out,           \* what the last call returned (a reference), NoRef if nothing
    err,           \* the exception the last call raised, "none" if none
    call,          \* the last call and its arguments
    made,          \* how the steerer was made: by the caller, or the factory's arguments
    given,         \* the matrix the steerer was constructed from
    before         \* the value of the caller's batch when the last call began

vars == <<heap, steerer, descriptions, out, err, call, made, given, before>>

NoCall == [op |-> "none", gtype |-> "", order |-> 0, power |-> 0, normalize |-> FALSE]

\* The references the caller and its steerer hold.
Held(s, d) == {s.generator, d} \ {NoRef}

Init ==
    /\ heap = [id \in {} |-> TorchZeros(0, 0)]
    /\ steerer = NoSteerer
    /\ descriptions = NoRef
    /\ out = NoRef
    /\ err = "none"
    /\ call = NoCall
    /\ made = [gtype |-> "", order |-> 0]
    /\ given = TorchZeros(0, 0)
    /\ before = TorchZeros(0, 0)

\* What a call leaves: the heap h, the steerer s, the batch d, the result o
\* and the exception e.
Leave(h, s, d, o, e) ==
    /\ heap' = Settle(h, s.generator, d, o)
    /\ steerer' = [s EXCEPT !.generator = Rename(s.generator, d, o, @)]
    /\ descriptions' = Rename(s.generator, d, o, d)
    /\ out' = Rename(s.generator, d, o, o)
    /\ err' = e

\* The value of the caller's batch, if it has one.
BatchValue == IF descriptions = NoRef THEN before ELSE heap[descriptions]

\* steerer = DiscreteSteerer(generator): construction validates nothing.
Construct(g) ==
    LET t == NewTensor(Collect(heap, Held(steerer, descriptions)), g)
    IN  /\ Leave(t.heap, DiscreteSteerer(t.ref), descriptions, NoRef, "none")
        /\ made' = [gtype |-> "custom", order |-> 0]
        /\ given' = g
        /\ before' = BatchValue
        /\ call' = [NoCall EXCEPT !.op = "construct"]

\* steerer = DiscreteSteerer.from_pretrained(generator_type, steerer_order);
\* when it raises, the assignment does not happen.
FromPretrained(generator_type, steerer_order) ==
    LET r == from_pretrained(Collect(heap, Held(steerer, descriptions)),
                             generator_type, steerer_order)
        s == IF r.err = "none" THEN r.module ELSE steerer
    IN  /\ Leave(r.heap, s, descriptions, NoRef, r.err)
        /\ made' = IF r.err = "none"
                   THEN [gtype |-> generator_type, order |-> steerer_order]
                   ELSE made
        /\ given' = IF r.err = "none" THEN r.heap[s.generator] ELSE given
        /\ before' = BatchValue
        /\ call' = [NoCall EXCEPT !.op = "from_pretrained",
                                  !.gtype = generator_type,
                                  !.order = steerer_order]

\* The caller takes a new batch from the descriptor extractor.
NewBatch(x) ==
    LET t == NewTensor(Collect(heap, Held(steerer, descriptions)), x)
    IN  /\ Leave(t.heap, steerer, t.ref, NoRef, "none")
        /\ before' = x
        /\ call' = [NoCall EXCEPT !.op = "batch"]
        /\ UNCHANGED <<made, given>>

\* out = steerer(descriptions)
Apply ==
    /\ steerer # NoSteerer
    /\ descriptions # NoRef
    /\ LET r == forward(Collect(heap, Held(steerer, descriptions)),
                        steerer, descriptions)
       IN  Leave(r.heap, steerer, descriptions, r.ref, r.err)
    /\ before' = BatchValue
    /\ call' = [NoCall EXCEPT !.op = "apply"]
    /\ UNCHANGED <<made, given>>

\* out = steerer(steerer(descriptions)): the inner result is a temporary.
ApplyTwice ==
    /\ steerer # NoSteerer
    /\ descriptions # NoRef
    /\ LET r1 == forward(Collect(heap, Held(steerer, descriptions)),
                         steerer, descriptions)
           r == IF r1.err # "none" THEN r1 ELSE forward(r1.heap, steerer, r1.ref)
       IN  Leave(r.heap, steerer, descriptions, r.ref, r.err)
    /\ before' = BatchValue
    /\ call' = [NoCall EXCEPT !.op = "apply_twice"]
    /\ UNCHANGED <<made, given>>

\* out = steerer.steer_descriptions(descriptions, steerer_power, normalize)
Steer(steerer_power, normalize) ==
    /\ steerer # NoSteerer
    /\ descriptions # NoRef
    /\ LET held == Held(steerer, descriptions)
           r == steer_descriptions(Collect(heap, held), steerer, descriptions,
                                   steerer_power, normalize, held)
       IN  Leave(r.heap, steerer, descriptions, r.ref, r.err)
    /\ before' = BatchValue
    /\ call' = [NoCall EXCEPT !.op = "steer", !.power = steerer_power,
                              !.normalize = normalize]
    /\ UNCHANGED <<made, given>>

Next ==
    \/ \E g \in Generators : Construct(g)
    \/ \E t \in GeneratorTypes, n \in Orders : FromPretrained(t, n)
    \/ \E x \in Batches : NewBatch(x)
    \/ Apply
    \/ ApplyTwice
    \/ \E k \in Powers, nrm \in BOOLEAN : Steer(k, nrm)

Spec == Init /\ [][Next]_vars

(***************************************************************************)
(* Properties                                                              *)
(***************************************************************************)
\* The steerer's matrix and the batch the last call was given.
G == heap[steerer.generator]
X == before

Called(op) == call.op = op
Returned == err = "none" /\ out # NoRef
Raised(e) == err = e /\ out = NoRef

\* The generator applied k times to x, as a value.
RECURSIVE ApplyK(_, _, _)
ApplyK(g, x, k) == IF k <= 0 THEN x ELSE Linear(ApplyK(g, x, k - 1), g)

\* sum over j of x[m][j] * g[i][j]; the columns where x[m] is zero add
\* nothing.
RowTimesRow(x, m, g, i) ==
    LET cols == DOMAIN x.rows[m]
    IN  SumOver(cols, [j \in cols |-> Mul(x.rows[m][j], Entry(g, i, j))])

\* Two tensors agree to the tolerance of the arithmetic.
Tol == Scale \div 1000

Close(a, b) ==
    /\ a.nrows = b.nrows
    /\ a.ncols = b.ncols
    /\ \A m \in 1..a.nrows : \A j \in DOMAIN a.rows[m] \cup DOMAIN b.rows[m] :
          Abs(Entry(a, m, j) - Entry(b, m, j)) <= Tol

\* C1: the generator of from_pretrained("SO2", steerer_order) is square of
\* dimension descriptor_dim = 256 (the zero block and the 6 * (D/14) 2x2
\* blocks add up to 256), so that it applies to any batch of width 256.
C1_SO2GeneratorIs256 ==
    made.gtype = "SO2" =>
        /\ G.nrows = descriptor_dim
        /\ G.ncols = descriptor_dim
        /\ (Called("apply") /\ X.ncols = descriptor_dim) => Returned

\* C2: with the steerer of from_pretrained("SO2", n), n > 0, steering a
\* descriptor batch n times gives the batch back.
C2_SO2PeriodIsOrder ==
    ( /\ made.gtype = "SO2"
      /\ Called("steer") /\ call.power = made.order /\ ~call.normalize
      /\ X.ncols = descriptor_dim )
    => (Returned /\ Close(heap[out], X))

\* Column of the one entry of row i of the C4 generator.
C4Column(i) == IF i % 4 = 0 THEN i - 3 ELSE i + 1

\* C3: from_pretrained("C4") gives, for every steerer_order, the 256x256
\* block-diagonal matrix of 64 cyclic 4x4 blocks, and steering any batch of
\* width 256 four times gives the batch back.
C3_C4GeneratorPeriod4 ==
    made.gtype = "C4" =>
        /\ G.nrows = 256 /\ G.ncols = 256
        /\ \A i \in 1..256 : G.rows[i] = [j \in {C4Column(i)} |-> Fx(1)]
        /\ ( /\ Called("steer") /\ call.power = 4 /\ ~call.normalize
             /\ X.ncols = 256 )
           => (Returned /\ heap[out] = X)

C3_Witness ==
    /\ made.gtype = "C4" /\ made.order # DefaultOrder
    /\ Called("steer") /\ call.power = 4 /\ ~call.normalize
    /\ X.ncols = 256 /\ Cardinality(DOMAIN X.rows[1]) = 2
    /\ Returned

\* The case of C4: the generator is the 4x4 cyclic block and x = [1,0,0,0].
C4Case ==
    /\ steerer # NoSteerer
    /\ G = C4Block
    /\ X = TorchTensor(<< <<1, 0, 0, 0>> >>)

\* C4 as stated: apply(x) is [0,1,0,0] and apply(apply(x)) is [0,0,1,0].
C4_ExampleAsStated ==
    C4Case =>
        /\ Called("apply") => (Returned /\ heap[out] = TorchTensor(<< <<0, 1, 0, 0>> >>))
        /\ Called("apply_twice") =>
              (Returned /\ heap[out] = TorchTensor(<< <<0, 0, 1, 0>> >>))

\* C4 amended: apply(x) is [0,0,0,1] (x times the transpose of the block)
\* and apply(apply(x)) is [0,0,1,0].
C4_Example ==
    C4Case =>
        /\ Called("apply") => (Returned /\ heap[out] = TorchTensor(<< <<0, 0, 0, 1>> >>))
        /\ Called("apply_twice") =>
              (Returned /\ heap[out] = TorchTensor(<< <<0, 0, 1, 0>> >>))

C4_Witness == C4Case /\ Called("apply_twice") /\ Returned

\* C5: for a square generator and a batch of its width,
\* steer(X, k, normalize=False) is apply composed k times; k = 0 returns X
\* itself and k = 1 is one apply.
C5_SteerIsIteratedApply ==
    ( /\ Called("steer") /\ ~call.normalize
      /\ IsSquare(G) /\ X.ncols = G.ncols )
    => /\ Returned
       /\ heap[out] = ApplyK(G, X, call.power)
       /\ call.power = 0 => (out = descriptions /\ heap[out] = X)
       /\ call.power = 1 => heap[out] = Linear(X, G)

C5_Witness ==
    /\ Called("steer") /\ ~call.normalize /\ call.power = 3
    /\ IsSquare(G) /\ X.ncols = G.ncols
    /\ heap[out] # X /\ heap[out] # Linear(X, G)

\* C6: for a square generator G (N x N) and a batch X of M rows of width N,
\* apply(X)[m][i] is the sum over j of X[m][j] * G[i][j], with no bias.
C6_ApplyIsXTimesGTransposed ==
    (Called("apply") /\ IsSquare(G) /\ X.ncols = G.ncols)
    => /\ Returned
       /\ heap[out].nrows = X.nrows
       /\ heap[out].ncols = G.nrows
       /\ \A m \in 1..X.nrows : \A i \in 1..G.nrows :
             Entry(heap[out], m, i) = RowTimesRow(X, m, G, i)

C6_Witness ==
    /\ Called("apply") /\ IsSquare(G) /\ X.ncols = G.ncols /\ X.nrows = 2
    /\ G # TorchTensor(<< <<1, 0>>, <<0, 1>> >>)
    /\ \E m \in 1..2 : heap[out].rows[m] # X.rows[m]

\* C7: from_pretrained with a generator_type other than "C4" and "SO2"
\* raises ValueError for every steerer_order and constructs nothing: no
\* tensor comes to exist and the caller's steerer is what it was.
C7_UnknownTypeRaises ==
    [][ (call'.op = "from_pretrained" /\ call'.gtype \notin {"C4", "SO2"})
        => /\ err' = "ValueError"
           /\ steerer' = steerer
           /\ made' = made
           /\ DOMAIN heap' \subseteq DOMAIN heap
           /\ \A id \in DOMAIN heap' : heap'[id] = heap[id] ]_vars

C7_Witness ==
    /\ Called("from_pretrained") /\ call.gtype = "c4" /\ call.order = 0
    /\ err = "ValueError"
    /\ made.gtype = "SO2"

\* How many times the last call applies the generator.
Applications ==
    IF Called("apply") THEN 1
    ELSE IF Called("apply_twice") THEN 2
    ELSE IF Called("steer") THEN call.power
    ELSE 0

IsCall == Called("apply") \/ Called("apply_twice") \/ Called("steer")

\* C8 as stated: whenever the generator is not square or its dimension
\* differs from the width of the batch, steer (any power, either normalize)
\* and apply fail with a shape-mismatch error and return nothing.
C8_MismatchAlwaysFails ==
    ( /\ Called("apply") \/ Called("steer")
      /\ ~IsSquare(G) \/ G.ncols # X.ncols )
    => Raised("RuntimeError")

\* C8 amended: a call fails with the shape-mismatch error, and returns
\* nothing, exactly when it applies the generator at least once to a batch
\* whose width is not the generator's number of columns, or at least twice
\* with a generator that is not square; steer with power 0 never fails;
\* construct accepts any matrix.
C8_ShapeMismatch ==
    /\ IsCall =>
          IF \/ Applications >= 1 /\ X.ncols # G.ncols
             \/ Applications >= 2 /\ ~IsSquare(G)
          THEN Raised("RuntimeError")
          ELSE Returned
    /\ Called("construct") => (err = "none" /\ G = given)

C8_Witness ==
    /\ Called("steer") /\ call.power = 2 /\ call.normalize
    /\ ~IsSquare(G) /\ X.ncols = G.ncols
    /\ Raised("RuntimeError")

\* A row is within tolerance of unit L2 norm.
UnitNorm(r) == Abs(Dot(r, r) - Scale) <= Tol

IsZeroRow(r) == DOMAIN r = {}

\* The case of C9: steer with normalize=True on a batch the generator can
\* be applied to steerer_power times.
C9Case ==
    /\ Called("steer") /\ call.normalize
    /\ call.power >= 1 => X.ncols = G.ncols
    /\ call.power >= 2 => IsSquare(G)

\* C9 as stated: every row of steer(X, k, normalize=True) that comes from
\* a nonzero input row has unit L2 norm, and a zero row stays zero.
C9_NonzeroInputRowsUnit ==
    C9Case =>
        /\ Returned
        /\ \A m \in 1..X.nrows :
              IF IsZeroRow(X.rows[m]) THEN IsZeroRow(heap[out].rows[m])
              ELSE UnitNorm(heap[out].rows[m])

\* C9 amended: the result is the normalisation of the batch after the last
\* application; every row that is nonzero after the last application has
\* unit L2 norm, and a row that is zero there (a zero input row, or a
\* nonzero one the generator maps to zero) is zero in the result.
C9_SteeredRowsUnit ==
    C9Case =>
        /\ Returned
        /\ heap[out] = Normalize(ApplyK(G, X, call.power))
        /\ \A m \in 1..X.nrows :
              IF IsZeroRow(ApplyK(G, X, call.power).rows[m])
              THEN IsZeroRow(heap[out].rows[m])
              ELSE UnitNorm(heap[out].rows[m])

C9_Witness ==
    /\ C9Case /\ call.power = 2 /\ X.nrows = 2
    /\ ~IsZeroRow(X.rows[1]) /\ IsZeroRow(heap[out].rows[1])
    /\ UnitNorm(heap[out].rows[2]) /\ ~UnitNorm(ApplyK(G, X, 2).rows[2])

\* What the last call must return or raise, from the matrix the steerer was
\* constructed with and the call's own arguments.
Expected ==
    IF \/ Applications >= 1 /\ X.ncols # given.ncols
       \/ Applications >= 2 /\ ~IsSquare(given)
    THEN [err |-> "RuntimeError", value |-> TorchZeros(0, 0)]
    ELSE [err |-> "none",
          value |-> IF Called("steer") /\ call.normalize
                    THEN Normalize(ApplyK(given, X, Applications))
                    ELSE ApplyK(given, X, Applications)]

\* C10: after any sequence of calls the generator is the matrix given at
\* construction, the caller's batch has the value it had before the call,
\* and the result depends only on the generator and the call's arguments.
C10_CallsChangeNothing ==
    /\ steerer # NoSteerer => G = given
    /\ descriptions # NoRef => heap[descriptions] = before
    /\ IsCall =>
          /\ err = Expected.err
          /\ err = "none" => heap[out] = Expected.value
          /\ err # "none" => out = NoRef

C10_Witness ==
    /\ Called("steer") /\ call.normalize /\ call.power = 0
    /\ Returned
    /\ out # descriptions
    /\ heap[out] # heap[descriptions]
====
